---------------------------- MODULE Spec2Model ----------------------------
(***************************************************************************)
(* Model of src/latlon-geohash.js: the custom base-16 geohash over the     *)
(* working domain lat [6,36] x lon [68,98].                                *)
(*                                                                         *)
(* Strings are sequences of one-character strings.  Numbers are exact      *)
(* fixed-point values: a Number x is the record [k, r] with                *)
(*        x = (k + r / Dec) / Unit,   0 <= r < Dec,                        *)
(* Unit = 2^24 and Dec = 10^7.  Every bound and midpoint the code computes *)
(* for up to 12 symbols is a multiple of 1/Unit (r = 0), and every value   *)
(* decode() returns is a decimal of at most 7 places, so both kinds are    *)
(* represented exactly and uniquely; IEEE doubles hold the same bounds and *)
(* midpoints exactly, and Number(decimal string) is within half an ulp of  *)
(* the decimal, which never changes its order against a midpoint.          *)
(* Inputs are strings and numbers: the Number() coercion and the NaN       *)
(* rejection of encode (lines 78-82) and a direction outside n/e/w/s       *)
(* (adjacent returns undefined) are outside the inputs drawn here.         *)
(***************************************************************************)
EXTENDS Integers, Sequences, FiniteSets

(* ------------------------------ bounds -------------------------------- *)

\* longest geohash handed to bounds / decode / adjacent / neighbours, and the
\* largest explicit precision handed to encode besides MaxPrecision
MaxLen == 2

\* the coordinates handed to encode are the corners, the centre and the
\* decoded centre of every cell of at most this many symbols
CoordLen == 1

(* --------------------------- program constants ------------------------ *)

\* for (let p=1; p<=12; p++) ... precision = 12
MaxPrecision == 12

\* each character holds 4 bits: if (++bit == 4), for (let n=3; ...), i = i+4
BitsPerChar == 4

LatMin0 == 6
LatMax0 == 36
LonMin0 == 68
LonMax0 == 98

(* ------------------------------ numbers ------------------------------- *)

\* F(x) with x evaluated once: let v = x; ... F(v)
Let(x, F(_)) == CHOOSE r \in {F(v) : v \in {x}} : TRUE

Unit == 2^24
Dec  == 10^7

\* the integer literal i
Num(i) == [k |-> i * Unit, r |-> 0]

\* a > b
Gt(a, b) == a.k > b.k \/ (a.k = b.k /\ a.r > b.r)

\* a <= b
Le(a, b) == ~Gt(a, b)

\* a < b
Lt(a, b) == Gt(b, a)

\* (a + b) / 2 of two bounds (multiples of 1/Unit an even number of units apart)
Mid(a, b) == [k |-> a.k + (b.k - a.k) \div 2, r |-> 0]

\* b - a of two bounds
Span(a, b) == [k |-> b.k - a.k, r |-> 0]

\* DecimalPlaces with toFixed called without its argument: no decimal places
DecimalPlaces_Whole(span) == 0

\* Math.floor(2 - Math.log(span)/Math.LN10): the d with 10^(1-d) < span <= 10^(2-d)
DecimalPlaces(span) ==
    CHOOSE d \in 0..8 :
        /\ span.k <= (100 * Unit) \div (10^d)
        /\ span.k >  (100 * Unit) \div (10^(d+1))

\* d decimal digits of the fraction f / Unit, by long division:
\* [n |-> the digits as an integer, f |-> the remainder]
RECURSIVE FracDigits(_, _)
FracDigits(f, d) ==
    IF d = 0 THEN [n |-> 0, f |-> f]
    ELSE Let(FracDigits(f, d - 1), LAMBDA p :
             [n |-> p.n * 10 + (p.f * 10) \div Unit, f |-> (p.f * 10) % Unit])

\* x.toFixed(d) of a multiple x of 1/Unit: the decimal n / 10^d nearest to x,
\* the larger n on a tie; the decimal string is the pair [n, d]
toFixed(x, d) ==
    Let(FracDigits(x.k % Unit, d), LAMBDA p :
        LET up == IF 2 * p.f >= Unit THEN 1 ELSE 0
        IN  [n |-> (x.k \div Unit) * 10^d + p.n + up, d |-> d])

\* g / Dec * 64^steps as [q |-> integer part, g |-> remainder over Dec]
RECURSIVE MulFrac(_, _)
MulFrac(g, steps) ==
    IF steps = 0 THEN [q |-> 0, g |-> g]
    ELSE Let(MulFrac(g, steps - 1), LAMBDA p :
             [q |-> p.q * 64 + (p.g * 64) \div Dec, g |-> (p.g * 64) % Dec])

\* Number(s) of the decimal string s = [n, d]
NumberOf(s) ==
    Let(MulFrac((s.n % 10^s.d) * 10^(7 - s.d), 4), LAMBDA p :
        [k |-> (s.n \div 10^s.d) * Unit + p.q, r |-> p.g])

(* --------------------------- lookup tables ---------------------------- *)

\* Geohash.base16 = '0123456789abcdef'
Base16Init == << "0", "1", "2", "3", "4", "5", "6", "7",
                 "8", "9", "a", "b", "c", "d", "e", "f" >>

\* the 4-bit binary string of i, most significant bit first
Bits4(i) == << IF (i \div 8) % 2 = 1 THEN "1" ELSE "0",
               IF (i \div 4) % 2 = 1 THEN "1" ELSE "0",
               IF (i \div 2) % 2 = 1 THEN "1" ELSE "0",
               IF i % 2 = 1 THEN "1" ELSE "0" >>

\* Geohash.hexBinaryMap = {'0': '0000', ..., 'f': '1111'}
HexBinaryMapInit == [c \in {Base16Init[i] : i \in 1..16} |->
                        Bits4((CHOOSE i \in 1..16 : Base16Init[i] = c) - 1)]

\* Geohash.binaryHexMap = {'0000': '0', ..., '1111': 'f'}
BinaryHexMapInit == [b \in {Bits4(i) : i \in 0..15} |->
                        Base16Init[(CHOOSE i \in 0..15 : Bits4(i) = b) + 1]]

\* what s += undefined appends
UndefinedStr == << "u", "n", "d", "e", "f", "i", "n", "e", "d" >>

\* what (NaN).toString(2) returns
NaNStr == << "N", "a", "N" >>

VARIABLES base16, hexBinaryMap, binaryHexMap, call, ret, enc

vars == << base16, hexBinaryMap, binaryHexMap, call, ret, enc >>
tables == << base16, hexBinaryMap, binaryHexMap >>

(* ------------------------------ strings ------------------------------- *)

\* String.prototype.toLowerCase on one character
LowerChar(c) ==
    CASE c = "A" -> "a" [] c = "B" -> "b" [] c = "C" -> "c"
      [] c = "D" -> "d" [] c = "E" -> "e" [] c = "F" -> "f"
      [] c = "G" -> "g" [] c = "N" -> "n" [] OTHER -> c

\* toLowerCase left out: the string as it came
toLowerCase_Missing(s) == s

\* geohash.toLowerCase()
toLowerCase(s) == [i \in 1..Len(s) |-> LowerChar(s[i])]

\* Geohash.base16.indexOf(chr): the 0-based index of chr, or -1
indexOf(chr) ==
    IF \E i \in 1..Len(base16) : base16[i] = chr
    THEN (CHOOSE i \in 1..Len(base16) :
              base16[i] = chr /\ \A j \in 1..(i-1) : base16[j] # chr) - 1
    ELSE -1

(* ------------------------------- bounds ------------------------------- *)

\* let evenBit = true; let latMin = 6, latMax = 36; let lonMin = 68, lonMax = 98;
Box0 == [evenBit |-> TRUE,
         latMin |-> Num(LatMin0), latMax |-> Num(LatMax0),
         lonMin |-> Num(LonMin0), lonMax |-> Num(LonMax0)]

\* BoundsBit without its else branches: a 0 bit narrows nothing
BoundsBit_OneOnly(b, bitN) ==
    IF b.evenBit
    THEN IF bitN = 1
         THEN [b EXCEPT !.lonMin = Mid(b.lonMin, b.lonMax), !.evenBit = FALSE]
         ELSE [b EXCEPT !.evenBit = FALSE]
    ELSE IF bitN = 1
         THEN [b EXCEPT !.latMin = Mid(b.latMin, b.latMax), !.evenBit = TRUE]
         ELSE [b EXCEPT !.evenBit = TRUE]

\* the body of bounds' inner loop for one bit bitN of a character
BoundsBit(b, bitN) ==
    IF b.evenBit
    THEN LET lonMid == Mid(b.lonMin, b.lonMax)
         IN  IF bitN = 1
             THEN [b EXCEPT !.lonMin = lonMid, !.evenBit = FALSE]
             ELSE [b EXCEPT !.lonMax = lonMid, !.evenBit = FALSE]
    ELSE LET latMid == Mid(b.latMin, b.latMax)
         IN  IF bitN = 1
             THEN [b EXCEPT !.latMin = latMid, !.evenBit = TRUE]
             ELSE [b EXCEPT !.latMax = latMid, !.evenBit = TRUE]

\* for (let n=3; n>=0; n--) { let bitN = idx >> n & 1; ... }, from bit n down
RECURSIVE BoundsChar(_, _, _)
BoundsChar(b, idx, n) ==
    IF n < 0 THEN b
    ELSE Let(BoundsBit(b, (idx \div 2^n) % 2), LAMBDA b1 :
             BoundsChar(b1, idx, n - 1))

\* for (let i=0; i<geohash.length; i++) { ... }, from character i (1-based) on;
\* a character outside base16 throws
RECURSIVE BoundsLoop(_, _, _)
BoundsLoop(b, geohash, i) ==
    IF i > Len(geohash) THEN [err |-> FALSE, box |-> b]
    ELSE IF indexOf(geohash[i]) = -1 THEN [err |-> TRUE, box |-> Box0]
         ELSE Let(BoundsChar(b, indexOf(geohash[i]), BitsPerChar - 1), LAMBDA b1 :
                  BoundsLoop(b1, geohash, i + 1))

NoPoint == [lat |-> Num(0), lon |-> Num(0)]
NoBounds == [sw |-> NoPoint, ne |-> NoPoint]

\* Geohash.bounds(geohash): err is the thrown 'Invalid geohash'
bounds(geohash) ==
    IF Len(geohash) = 0 THEN [err |-> TRUE, sw |-> NoPoint, ne |-> NoPoint]
    ELSE Let(toLowerCase(geohash), LAMBDA lower :
         Let(BoundsLoop(Box0, lower, 1), LAMBDA r :
             IF r.err THEN [err |-> TRUE, sw |-> NoPoint, ne |-> NoPoint]
             ELSE [err |-> FALSE,
                   sw |-> [lat |-> r.box.latMin, lon |-> r.box.lonMin],
                   ne |-> [lat |-> r.box.latMax, lon |-> r.box.lonMax]]))

(* ------------------------------- decode ------------------------------- *)

\* Number(x.toFixed(Math.floor(2 - Math.log(max - min)/Math.LN10))), x = (min + max)/2
Centre(min, max) ==
    Let(DecimalPlaces(Span(min, max)), LAMBDA d :
        Let(toFixed(Mid(min, max), d), LAMBDA s : NumberOf(s)))

\* Geohash.decode(geohash): the throw of bounds propagates
decode(geohash) ==
    Let(bounds(geohash), LAMBDA b :
        IF b.err THEN [err |-> TRUE, lat |-> Num(0), lon |-> Num(0)]
        ELSE [err |-> FALSE,
              lat |-> Centre(b.sw.lat, b.ne.lat),
              lon |-> Centre(b.sw.lon, b.ne.lon)])

(* ------------------------------- encode ------------------------------- *)

\* let idx = 0; let bit = 0; let evenBit = true; let geohash = ''; the box
Frame0 == [idx |-> 0, bit |-> 0, evenBit |-> TRUE, geohash |-> << >>,
           latMin |-> Num(LatMin0), latMax |-> Num(LatMax0),
           lonMin |-> Num(LonMin0), lonMax |-> Num(LonMax0)]

\* Bisect with lon >= lonMid and lat >= latMid for the strict comparisons
Bisect_TieAbove(f, lat, lon) ==
    IF f.evenBit
    THEN LET lonMid == Mid(f.lonMin, f.lonMax)
         IN  IF ~Lt(lon, lonMid)
             THEN [f EXCEPT !.idx = f.idx * 2 + 1, !.lonMin = lonMid, !.evenBit = FALSE]
             ELSE [f EXCEPT !.idx = f.idx * 2, !.lonMax = lonMid, !.evenBit = FALSE]
    ELSE LET latMid == Mid(f.latMin, f.latMax)
         IN  IF ~Lt(lat, latMid)
             THEN [f EXCEPT !.idx = f.idx * 2 + 1, !.latMin = latMid, !.evenBit = TRUE]
             ELSE [f EXCEPT !.idx = f.idx * 2, !.latMax = latMid, !.evenBit = TRUE]

\* Bisect with the latitude branch copied from the longitude branch and lon
\* left in its comparison
Bisect_LonTwice(f, lat, lon) ==
    IF f.evenBit
    THEN LET lonMid == Mid(f.lonMin, f.lonMax)
         IN  IF Gt(lon, lonMid)
             THEN [f EXCEPT !.idx = f.idx * 2 + 1, !.lonMin = lonMid, !.evenBit = FALSE]
             ELSE [f EXCEPT !.idx = f.idx * 2, !.lonMax = lonMid, !.evenBit = FALSE]
    ELSE LET latMid == Mid(f.latMin, f.latMax)
         IN  IF Gt(lon, latMid)
             THEN [f EXCEPT !.idx = f.idx * 2 + 1, !.latMin = latMid, !.evenBit = TRUE]
             ELSE [f EXCEPT !.idx = f.idx * 2, !.latMax = latMid, !.evenBit = TRUE]

\* the bisection of one iteration of encode's while loop (lines 93-114)
Bisect(f, lat, lon) ==
    IF f.evenBit
    THEN LET lonMid == Mid(f.lonMin, f.lonMax)
         IN  IF Gt(lon, lonMid)
             THEN [f EXCEPT !.idx = f.idx * 2 + 1, !.lonMin = lonMid, !.evenBit = FALSE]
             ELSE [f EXCEPT !.idx = f.idx * 2, !.lonMax = lonMid, !.evenBit = FALSE]
    ELSE LET latMid == Mid(f.latMin, f.latMax)
         IN  IF Gt(lat, latMid)
             THEN [f EXCEPT !.idx = f.idx * 2 + 1, !.latMin = latMid, !.evenBit = TRUE]
             ELSE [f EXCEPT !.idx = f.idx * 2, !.latMax = latMid, !.evenBit = TRUE]

\* if (++bit == 4) { geohash += Geohash.base16.charAt(idx); bit = 0; idx = 0; }
Emit(f) ==
    IF f.bit + 1 = BitsPerChar
    THEN [f EXCEPT !.geohash = Append(f.geohash, base16[f.idx + 1]),
                   !.bit = 0, !.idx = 0]
    ELSE [f EXCEPT !.bit = f.bit + 1]

\* one iteration of encode's while loop
EncodeStep(f, lat, lon) == Let(Bisect(f, lat, lon), LAMBDA f1 : Emit(f1))

\* the iterations of the while loop up to the one that appends a character
\* (geohash.length, which the loop tests, changes only there)
RECURSIVE EncodeChar(_, _, _)
EncodeChar(f, lat, lon) ==
    Let(EncodeStep(f, lat, lon), LAMBDA f1 :
        IF f1.bit = 0 THEN f1 ELSE EncodeChar(f1, lat, lon))

\* while (geohash.length < precision) { ... } return geohash;
RECURSIVE EncodeRun(_, _, _, _)
EncodeRun(f, lat, lon, precision) ==
    IF Len(f.geohash) < precision
    THEN Let(EncodeChar(f, lat, lon), LAMBDA f1 :
             EncodeRun(f1, lat, lon, precision))
    ELSE f.geohash

\* Geohash.encode(lat, lon, precision) with the precision given
encode(lat, lon, precision) ==
    Let(<< lat, lon >>, LAMBDA a : EncodeRun(Frame0, a[1], a[2], precision))

\* let hash = Geohash.encode(lat, lon, p); let posn = Geohash.decode(hash);
\* posn.lat==lat && posn.lon==lon
Matches(lat, lon, p) ==
    Let(decode(encode(lat, lon, p)), LAMBDA posn :
        posn.lat = lat /\ posn.lon = lon)

\* for (let p=1; p<=12; p++) { ... if (...) return hash; } precision = 12;
\* from p on
RECURSIVE InferLoop(_, _, _)
InferLoop(lat, lon, p) ==
    IF p <= MaxPrecision
    THEN IF Matches(lat, lon, p) THEN encode(lat, lon, p)
         ELSE InferLoop(lat, lon, p + 1)
    ELSE encode(lat, lon, MaxPrecision)

\* encodeInfer with the loop started at p = 2
encodeInfer_FromTwo(lat, lon) ==
    Let(<< lat, lon >>, LAMBDA a : InferLoop(a[1], a[2], 2))

\* Geohash.encode(lat, lon) with the precision omitted
encodeInfer(lat, lon) ==
    Let(<< lat, lon >>, LAMBDA a : InferLoop(a[1], a[2], 1))

(* ------------------------------ bit codec ----------------------------- *)

\* binaryString.substr(i, 4), i 0-based: at most 4 characters from i on
substr4(s, i) ==
    LET last == IF i + BitsPerChar < Len(s) THEN i + BitsPerChar ELSE Len(s)
    IN  SubSeq(s, i + 1, last)

\* s += Geohash.binaryHexMap[r]: a missing key reads undefined
HexOf(r) ==
    IF r \in DOMAIN binaryHexMap THEN << binaryHexMap[r] >> ELSE UndefinedStr

\* Geohash.binaryToHex(binaryString), from offset i (0-based) on
RECURSIVE BinaryToHexFrom(_, _)
BinaryToHexFrom(binaryString, i) ==
    IF i < Len(binaryString)
    THEN HexOf(substr4(binaryString, i))
             \o BinaryToHexFrom(binaryString, i + BitsPerChar)
    ELSE << >>

binaryToHex(binaryString) == BinaryToHexFrom(binaryString, 0)

\* s += Geohash.hexBinaryMap[hexString.charAt(i)]: a missing key reads undefined
BinaryOf(c) ==
    IF c \in DOMAIN hexBinaryMap THEN hexBinaryMap[c] ELSE UndefinedStr

\* Geohash.hexToBinary(hexString), from character i (1-based) on
RECURSIVE HexToBinaryFrom(_, _)
HexToBinaryFrom(hexString, i) ==
    IF i <= Len(hexString)
    THEN BinaryOf(hexString[i]) \o HexToBinaryFrom(hexString, i + 1)
    ELSE << >>

hexToBinary(hexString) == Let(hexString, LAMBDA s : HexToBinaryFrom(s, 1))

(* ------------------------------ adjacent ------------------------------ *)

\* Deinterleave with the test i%2 == 1: the two bit strings change places
Deinterleave_Swapped(value, parity) ==
    [j \in 1..((Len(value) + parity) \div 2) |-> value[2 * j - parity]]

\* for (i < value.length) { if (i%2 == 0) lngs += value.charAt(i); else lats += ... }:
\* the characters of value at the 0-based indices i with i % 2 = parity
Deinterleave(value, parity) ==
    [j \in 1..((Len(value) + 1 - parity) \div 2) |-> value[2 * j - 1 + parity]]

\* the value of the longest prefix of binary digits of s from character i on,
\* acc being the value read so far
RECURSIVE DigitsValue(_, _, _)
DigitsValue(s, i, acc) ==
    IF i <= Len(s) /\ s[i] \in {"0", "1"}
    THEN DigitsValue(s, i + 1, acc * 2 + (IF s[i] = "1" THEN 1 ELSE 0))
    ELSE acc

\* parseInt(s, 2) of a string without sign or white space: NaN when s does
\* not start with a binary digit
parseInt2(s) ==
    IF Len(s) > 0 /\ s[1] \in {"0", "1"}
    THEN [nan |-> FALSE, v |-> DigitsValue(s, 1, 0)]
    ELSE [nan |-> TRUE, v |-> 0]

\* the binary digits of n > 0, most significant first
RECURSIVE Digits2(_)
Digits2(n) ==
    IF n = 0 THEN << >>
    ELSE Digits2(n \div 2) \o << IF n % 2 = 1 THEN "1" ELSE "0" >>

\* (x + delta).toString(2) of the parsed number x: no leading zeros, a minus
\* sign for a negative number, 'NaN' for NaN
toString2(x, delta) ==
    LET n == x.v + delta
    IN  IF x.nan THEN NaNStr
        ELSE IF n = 0 THEN << "0" >>
        ELSE IF n < 0 THEN << "-" >> \o Digits2(-n)
        ELSE Digits2(n)

\* leftpad with the loop bound i <= num: one zero too many
leftpad_OneMore(s, num) == [i \in 1..(num + 1) |-> "0"] \o s

\* Geohash.leftpad(s, num)
leftpad(s, num) == [i \in 1..num |-> "0"] \o s

\* for (i < lngs.length) { s += lngs.charAt(i); s += lats.charAt(i); } with
\* lats as long as lngs, which the padding has made it
Zip(lngs, lats) ==
    [j \in 1..(2 * Len(lngs)) |->
        IF j % 2 = 1 THEN lngs[(j + 1) \div 2] ELSE lats[j \div 2]]

\* Geohash.interleave(lngs, lats)
interleave(lngs, lats) ==
    Let(IF Len(lngs) < Len(lats)
        THEN leftpad(lngs, Len(lats) - Len(lngs)) ELSE lngs, LAMBDA lngs1 :
    Let(IF Len(lats) < Len(lngs1)
        THEN leftpad(lats, Len(lngs1) - Len(lats)) ELSE lats, LAMBDA lats1 :
        Zip(lngs1, lats1)))

\* lines 186-202 of adjacent: the neighbour from the two bit strings
Shift(lngs, lats, direction) ==
    Let(<< parseInt2(lngs), parseInt2(lats) >>, LAMBDA num :
    Let([leftLng  |-> toString2(num[1], -1), rightLng |-> toString2(num[1], 1),
         upLat    |-> toString2(num[2], 1),  downLat  |-> toString2(num[2], -1)],
        LAMBDA t :
    Let(CASE direction = "n" -> interleave(lngs, t.upLat)
          [] direction = "e" -> interleave(t.rightLng, lats)
          [] direction = "w" -> interleave(t.leftLng, lats)
          [] direction = "s" -> interleave(lngs, t.downLat),
        LAMBDA bits : binaryToHex(bits))))

\* Geohash.adjacent(geohash, direction), direction one of n, e, w, s
adjacent(geohash, direction) ==
    Let(hexToBinary(geohash), LAMBDA value :
    Let(<< Deinterleave(value, 0), Deinterleave(value, 1) >>, LAMBDA ll :
        Shift(ll[1], ll[2], direction)))

\* Geohash.neighbours(geohash)
neighbours(geohash) ==
    Let(geohash, LAMBDA g :
        [n  |-> adjacent(g, "n"),
         ne |-> adjacent(adjacent(g, "n"), "e"),
         e  |-> adjacent(g, "e"),
         se |-> adjacent(adjacent(g, "s"), "e"),
         s  |-> adjacent(g, "s"),
         sw |-> adjacent(adjacent(g, "s"), "w"),
         w  |-> adjacent(g, "w"),
         nw |-> adjacent(adjacent(g, "n"), "w")])

(* ------------------------------- inputs ------------------------------- *)

HexChars == {Base16Init[i] : i \in 1..16}

\* an upper-case hex digit, an upper-case and a lower-case non-digit, beside
\* two hex digits to place them among
OddChars == {"7", "c", "B", "G", "z"}

\* a geohash of MaxPrecision symbols without a pattern
Sample == << "3", "a", "7", "0", "f", "1", "c", "e", "5", "9", "b", "2" >>

\* the strings handed to bounds, decode, adjacent and neighbours: every
\* string of hex digits of at most MaxLen characters, the strings of equal
\* hex digits of every length (cells on the edges of the domain and cells
\* whose neighbour is a carry through every bit away), the substrings of
\* Sample, and strings with other characters
Hashes == UNION {[1..n -> HexChars] : n \in 0..MaxLen}
              \cup {[i \in 1..n |-> c] : c \in HexChars, n \in 1..MaxPrecision}
              \cup {SubSeq(Sample, i, j) : i \in 1..MaxPrecision, j \in 1..MaxPrecision}
              \cup UNION {[1..n -> OddChars] : n \in 1..MaxLen}

Directions == {"n", "e", "w", "s"}

\* min0 + 30 * i / 4^len: edge i of the 4^len cells of len symbols along one axis
Edge(min0, len, i) == [k |-> min0 * Unit + i * (((LatMax0 - LatMin0) * Unit) \div 4^len),
                       r |-> 0]

\* for the cell (i, j) of len symbols: its two corners, its centre and its
\* decoded centre
CellPoints(len, i, j) ==
    LET s == Edge(LatMin0, len, i)     n == Edge(LatMin0, len, i + 1)
        w == Edge(LonMin0, len, j)     e == Edge(LonMin0, len, j + 1)
    IN  {[lat |-> s, lon |-> w], [lat |-> n, lon |-> e],
         [lat |-> Mid(s, n), lon |-> Mid(w, e)],
         [lat |-> Centre(s, n), lon |-> Centre(w, e)]}

\* the decoded centres of three cells on the diagonal, of len symbols
DiagonalCentres(len) ==
    {[lat |-> Centre(Edge(LatMin0, len, i), Edge(LatMin0, len, i + 1)),
      lon |-> Centre(Edge(LonMin0, len, i), Edge(LonMin0, len, i + 1))] :
        i \in {0, 4^len \div 3, 4^len - 1}}

\* the coordinates handed to encode: the points of the cells of at most
\* CoordLen symbols, decoded centres of cells of every length, and two
\* points outside the working domain
Points ==
    UNION {UNION {CellPoints(len, i, j) : i \in 0..(4^len - 1), j \in 0..(4^len - 1)} :
              len \in 1..CoordLen}
      \cup UNION {DiagonalCentres(len) : len \in 1..MaxPrecision}
      \cup {[lat |-> Num(LatMin0 - 1), lon |-> Num(LonMin0 - 1)],
            [lat |-> Num(LatMax0 + 1), lon |-> Num(LonMax0 + 1)]}

Precisions == (0..MaxLen) \cup {MaxPrecision}

(* ------------------------------- state -------------------------------- *)

NoCall == [op |-> "none", geohash |-> << >>, direction |-> "",
           lat |-> Num(0), lon |-> Num(0), precision |-> 0]

NoNeighbours == [n |-> << >>, ne |-> << >>, e |-> << >>, se |-> << >>,
                 s |-> << >>, sw |-> << >>, w |-> << >>, nw |-> << >>]

\* nothing returned: err is a thrown Error, str a returned string, posn a
\* returned position, box a returned rectangle, all the returned neighbours
NoRet == [err |-> FALSE, str |-> << >>, posn |-> NoPoint, box |-> NoBounds,
          all |-> NoNeighbours]

\* no encode loop is running
Idle == [pc |-> "idle", f |-> Frame0]

Init ==
    /\ base16 = Base16Init
    /\ hexBinaryMap = HexBinaryMapInit
    /\ binaryHexMap = BinaryHexMapInit
    /\ call = NoCall
    /\ ret = NoRet
    /\ enc = Idle

\* the functions are synchronous: the caller makes a call when it holds no
\* unfinished call and no result it has not taken
Ready == call.op = "none"

\* Geohash.encode(lat, lon, precision) is called: lines 78-90
CallEncode ==
    /\ Ready
    /\ \E pt \in Points, precision \in Precisions :
          call' = [NoCall EXCEPT !.op = "encode", !.lat = pt.lat, !.lon = pt.lon,
                                 !.precision = precision]
    /\ ret' = NoRet
    /\ enc' = [pc |-> "loop", f |-> Frame0]
    /\ UNCHANGED tables

\* one iteration of while (geohash.length < precision)
EncodeLoop ==
    /\ enc.pc = "loop"
    /\ Len(enc.f.geohash) < call.precision
    /\ enc' = [enc EXCEPT !.f = EncodeStep(enc.f, call.lat, call.lon)]
    /\ UNCHANGED << tables, call, ret >>

\* the loop ends: return geohash
EncodeReturn ==
    /\ enc.pc = "loop"
    /\ ~(Len(enc.f.geohash) < call.precision)
    /\ ret' = [NoRet EXCEPT !.str = enc.f.geohash]
    /\ enc' = [enc EXCEPT !.pc = "done"]
    /\ UNCHANGED << tables, call >>

\* Geohash.encode(lat, lon): the precision is inferred
CallEncodeInfer ==
    /\ Ready
    /\ \E pt \in Points :
          /\ call' = [NoCall EXCEPT !.op = "encodeInfer", !.lat = pt.lat, !.lon = pt.lon]
          /\ ret' = [NoRet EXCEPT !.str = encodeInfer(pt.lat, pt.lon)]
    /\ enc' = Idle
    /\ UNCHANGED tables

\* Geohash.bounds(geohash)
CallBounds ==
    /\ Ready
    /\ \E geohash \in Hashes :
          /\ call' = [NoCall EXCEPT !.op = "bounds", !.geohash = geohash]
          /\ ret' = Let(bounds(geohash), LAMBDA b :
                        IF b.err THEN [NoRet EXCEPT !.err = TRUE]
                        ELSE [NoRet EXCEPT !.box = [sw |-> b.sw, ne |-> b.ne]])
    /\ enc' = Idle
    /\ UNCHANGED tables

\* Geohash.decode(geohash)
CallDecode ==
    /\ Ready
    /\ \E geohash \in Hashes :
          /\ call' = [NoCall EXCEPT !.op = "decode", !.geohash = geohash]
          /\ ret' = Let(decode(geohash), LAMBDA d :
                        IF d.err THEN [NoRet EXCEPT !.err = TRUE]
                        ELSE [NoRet EXCEPT !.posn = [lat |-> d.lat, lon |-> d.lon]])
    /\ enc' = Idle
    /\ UNCHANGED tables

\* CallAdjacent with hexToBinary keeping what it looked up in the shared
\* table, the undefined of a missing key included
CallAdjacent_Memo ==
    /\ Ready
    /\ \E geohash \in Hashes, direction \in Directions :
          /\ call' = [NoCall EXCEPT !.op = "adjacent", !.geohash = geohash,
                                    !.direction = direction]
          /\ ret' = [NoRet EXCEPT !.str = adjacent(geohash, direction)]
          /\ hexBinaryMap' = [c \in DOMAIN hexBinaryMap
                                       \cup {geohash[i] : i \in 1..Len(geohash)} |->
                                  BinaryOf(c)]
    /\ enc' = Idle
    /\ UNCHANGED << base16, binaryHexMap >>

\* Geohash.adjacent(geohash, direction)
CallAdjacent ==
    /\ Ready
    /\ \E geohash \in Hashes, direction \in Directions :
          /\ call' = [NoCall EXCEPT !.op = "adjacent", !.geohash = geohash,
                                    !.direction = direction]
          /\ ret' = [NoRet EXCEPT !.str = adjacent(geohash, direction)]
    /\ enc' = Idle
    /\ UNCHANGED tables

\* Geohash.neighbours(geohash)
CallNeighbours ==
    /\ Ready
    /\ \E geohash \in Hashes :
          /\ call' = [NoCall EXCEPT !.op = "neighbours", !.geohash = geohash]
          /\ ret' = [NoRet EXCEPT !.all = neighbours(geohash)]
    /\ enc' = Idle
    /\ UNCHANGED tables

\* the caller takes what the call returned or threw and goes on
Resume ==
    /\ call.op # "none"
    /\ enc.pc # "loop"
    /\ call' = NoCall
    /\ ret' = NoRet
    /\ enc' = Idle
    /\ UNCHANGED tables

Next ==
    \/ CallEncode
    \/ EncodeLoop
    \/ EncodeReturn
    \/ CallEncodeInfer
    \/ CallBounds
    \/ CallDecode
    \/ CallAdjacent
    \/ CallNeighbours
    \/ Resume

Spec == Init /\ [][Next]_vars

(* ------------------------------- claims ------------------------------- *)

\* a valid geohash: 1 to 12 symbols of the alphabet 0-9a-f
Valid(h) == Len(h) \in 1..MaxPrecision /\ \A i \in 1..Len(h) : h[i] \in HexChars

\* the point lies in the working domain [6,36] x [68,98]
InDomain(lat, lon) ==
    /\ Le(Num(LatMin0), lat) /\ Le(lat, Num(LatMax0))
    /\ Le(Num(LonMin0), lon) /\ Le(lon, Num(LonMax0))

\* an encode call with an explicit precision has returned
Encoded == call.op = "encode" /\ enc.pc = "done"

\* C1: for a precision in 1..12 and a point of the working domain, the
\* rectangle bounds(encode(lat, lon, p)) contains the point, edges included
C1_BoundsContainPoint ==
    (Encoded /\ call.precision \in 1..MaxPrecision /\ InDomain(call.lat, call.lon))
        => Let(bounds(ret.str), LAMBDA b :
               /\ ~b.err
               /\ Le(b.sw.lat, call.lat) /\ Le(call.lat, b.ne.lat)
               /\ Le(b.sw.lon, call.lon) /\ Le(call.lon, b.ne.lon))

\* C1 happens: a 12-symbol encoding of a point of the domain that lies on the
\* north-east corner of its cell
C1_Witness ==
    /\ Encoded /\ call.precision = MaxPrecision /\ InDomain(call.lat, call.lon)
    /\ Let(bounds(ret.str), LAMBDA b :
           ~b.err /\ b.ne.lat = call.lat /\ b.ne.lon = call.lon)

\* C2: for a valid geohash h of length L, encoding the rounded centre that
\* decode(h) returns at precision L gives h back
C2_CentreReencodes ==
    (call.op = "decode" /\ Valid(call.geohash))
        => /\ ~ret.err
           /\ encode(ret.posn.lat, ret.posn.lon, Len(call.geohash)) = call.geohash

\* C2 happens: a decoded centre that the rounding moved off the cell's centre
C2_Witness ==
    /\ call.op = "decode" /\ Valid(call.geohash) /\ ~ret.err
    /\ Let(bounds(call.geohash), LAMBDA b :
           ret.posn.lat # Mid(b.sw.lat, b.ne.lat) /\ ret.posn.lon # Mid(b.sw.lon, b.ne.lon))

\* the rectangle b lies within the rectangle p and is smaller on both axes
Within(b, p) ==
    /\ Le(p.sw.lat, b.sw.lat) /\ Le(b.ne.lat, p.ne.lat)
    /\ Le(p.sw.lon, b.sw.lon) /\ Le(b.ne.lon, p.ne.lon)
    /\ Lt(Span(b.sw.lat, b.ne.lat), Span(p.sw.lat, p.ne.lat))
    /\ Lt(Span(b.sw.lon, b.ne.lon), Span(p.sw.lon, p.ne.lon))

\* C3: for a geohash h that bounds accepts and every k with 1 <= k < length(h),
\* bounds(h) lies within bounds(h[0:k]) and is a proper part of it
C3_PrefixContains ==
    (call.op = "bounds" /\ ~ret.err)
        => \A k \in 1..(Len(call.geohash) - 1) :
               Let(bounds(SubSeq(call.geohash, 1, k)), LAMBDA p :
                   ~p.err /\ Within(ret.box, p))

\* C3 happens: the rectangle of a geohash of 12 symbols that shares its
\* south-west corner with the rectangles of its prefixes
C3_Witness ==
    /\ call.op = "bounds" /\ ~ret.err /\ Len(call.geohash) = MaxPrecision
    /\ ret.box.sw = [lat |-> Num(LatMin0), lon |-> Num(LonMin0)]

\* the cell of h does not touch the edge of the working domain on the side
\* direction
StaysInside(h, direction) ==
    Let(bounds(h), LAMBDA b :
        /\ ~b.err
        /\ direction = "n" => Lt(b.ne.lat, Num(LatMax0))
        /\ direction = "s" => Gt(b.sw.lat, Num(LatMin0))
        /\ direction = "e" => Lt(b.ne.lon, Num(LonMax0))
        /\ direction = "w" => Gt(b.sw.lon, Num(LonMin0)))

\* C4: for a valid geohash h whose cell is not on the east (north) edge of the
\* domain, adjacent(adjacent(h, "e"), "w") = h (adjacent(adjacent(h, "n"), "s") = h)
C4_InverseCancels ==
    (/\ call.op = "adjacent" /\ Valid(call.geohash)
     /\ call.direction \in {"e", "n"}
     /\ StaysInside(call.geohash, call.direction))
        => adjacent(ret.str, IF call.direction = "e" THEN "w" ELSE "s") = call.geohash

\* C4 happens: a step east from a cell on the west edge of the domain, whose
\* longitude bits are all zero
C4_Witness ==
    /\ call.op = "adjacent" /\ Valid(call.geohash) /\ call.direction = "e"
    /\ Len(call.geohash) >= 2
    /\ StaysInside(call.geohash, "e") /\ ~StaysInside(call.geohash, "w")

\* the keys of the object neighbours returns
Compass == {"n", "ne", "e", "se", "s", "sw", "w", "nw"}

\* C5: for a valid geohash h, neighbours(h) has exactly the 8 keys n, ne, e,
\* se, s, sw, w, nw, each a valid geohash as long as h
C5_EightValidNeighbours ==
    (call.op = "neighbours" /\ Valid(call.geohash))
        => /\ DOMAIN ret.all = Compass
           /\ \A d \in Compass :
                  Valid(ret.all[d]) /\ Len(ret.all[d]) = Len(call.geohash)

RoundTrips(lat, lon, p) ==
    Let(decode(encode(lat, lon, p)), LAMBDA posn :
        ~posn.err /\ posn.lat = lat /\ posn.lon = lon)

\* C7: with the precision omitted encode returns encode(lat, lon, p) for the
\* least p in 1..12 whose encoding decodes to (lat, lon), and for p = 12 when
\* there is none; the result has 1 to 12 symbols
C7_InferredPrecision ==
    (call.op = "encodeInfer")
        => Let({p \in 1..MaxPrecision : RoundTrips(call.lat, call.lon, p)}, LAMBDA ps :
               /\ ret.str = encode(call.lat, call.lon,
                                   IF ps = {} THEN MaxPrecision
                                   ELSE CHOOSE p \in ps : \A q \in ps : p <= q)
               /\ Len(ret.str) \in 1..MaxPrecision)

\* C7 happens: a precision strictly between 1 and 12 is inferred
C7_Witness ==
    /\ call.op = "encodeInfer"
    /\ Len(ret.str) \in 2..(MaxPrecision - 1)
    /\ RoundTrips(call.lat, call.lon, Len(ret.str))

\* what the finished call returns when it is the only call ever made
Alone ==
    CASE call.op = "encode" ->
             [NoRet EXCEPT !.str = encode(call.lat, call.lon, call.precision)]
      [] call.op = "encodeInfer" ->
             [NoRet EXCEPT !.str = encodeInfer(call.lat, call.lon)]
      [] call.op = "bounds" ->
             Let(bounds(call.geohash), LAMBDA b :
                 IF b.err THEN [NoRet EXCEPT !.err = TRUE]
                 ELSE [NoRet EXCEPT !.box = [sw |-> b.sw, ne |-> b.ne]])
      [] call.op = "decode" ->
             Let(decode(call.geohash), LAMBDA d :
                 IF d.err THEN [NoRet EXCEPT !.err = TRUE]
                 ELSE [NoRet EXCEPT !.posn = [lat |-> d.lat, lon |-> d.lon]])
      [] call.op = "adjacent" ->
             [NoRet EXCEPT !.str = adjacent(call.geohash, call.direction)]
      [] call.op = "neighbours" ->
             [NoRet EXCEPT !.all = neighbours(call.geohash)]
      [] OTHER -> NoRet

EmittedBit ==
    IF enc'.f.bit # 0 THEN enc'.f.idx - 2 * enc.f.idx
    ELSE indexOf(enc'.f.geohash[Len(enc'.f.geohash)]) - 2 * enc.f.idx

\* the tie-break of one loop iteration on the axis with the bounds min, max
\* (min1, max1 after it) and the coordinate x
TieBreak(x, min, max, min1, max1) ==
    Let(Mid(min, max), LAMBDA mid :
        /\ Le(x, mid) => (EmittedBit = 0 /\ max1 = mid /\ min1 = min)
        /\ EmittedBit = 1 => Gt(x, mid)
        /\ EmittedBit \in {0, 1}
        /\ Le(x, max) => Le(x, max1)
        /\ Lt(min, x) => Lt(min1, x))

\* C9: in every iteration of encode's loop a coordinate equal to the midpoint
\* of the active axis gives bit 0 and moves the max bound down to the
\* midpoint, the bit is 1 only for a coordinate strictly above the midpoint,
\* and so a coordinate within (min, max] stays within (min, max]: a point on
\* the edge shared by two cells goes to the southern (western) one
C9_TieGoesBelow ==
    [][(enc.pc = "loop" /\ enc'.pc = "loop" /\ enc'.f # enc.f)
          => IF enc.f.evenBit
             THEN TieBreak(call.lon, enc.f.lonMin, enc.f.lonMax,
                           enc'.f.lonMin, enc'.f.lonMax)
             ELSE TieBreak(call.lat, enc.f.latMin, enc.f.latMax,
                           enc'.f.latMin, enc'.f.latMax)]_vars

\* C9 happens: the loop has bisected both axes at the coordinate itself, which
\* is now the north-east corner of the box, inside the domain
C9_Witness ==
    /\ call.op = "encode" /\ enc.pc = "loop" /\ Len(enc.f.geohash) >= 1
    /\ call.lat = enc.f.latMax /\ Lt(call.lat, Num(LatMax0))
    /\ call.lon = enc.f.lonMax /\ Lt(call.lon, Num(LonMax0))

\* C10: for a valid geohash h and a direction whose step stays in the domain,
\* adjacent(h, d) is a valid geohash as long as h whose cell has the size of
\* h's cell and shares its whole edge on side d
C10_SharesEdge ==
    (/\ call.op = "adjacent" /\ Valid(call.geohash)
     /\ StaysInside(call.geohash, call.direction))
        => /\ Valid(ret.str) /\ Len(ret.str) = Len(call.geohash)
           /\ Let(<< bounds(call.geohash), bounds(ret.str) >>, LAMBDA b :
                  /\ ~b[2].err
                  /\ call.direction = "n" =>
                         /\ b[2].sw.lat = b[1].ne.lat
                         /\ Span(b[2].sw.lat, b[2].ne.lat) = Span(b[1].sw.lat, b[1].ne.lat)
                         /\ b[2].sw.lon = b[1].sw.lon /\ b[2].ne.lon = b[1].ne.lon
                  /\ call.direction = "s" =>
                         /\ b[2].ne.lat = b[1].sw.lat
                         /\ Span(b[2].sw.lat, b[2].ne.lat) = Span(b[1].sw.lat, b[1].ne.lat)
                         /\ b[2].sw.lon = b[1].sw.lon /\ b[2].ne.lon = b[1].ne.lon
                  /\ call.direction = "e" =>
                         /\ b[2].sw.lon = b[1].ne.lon
                         /\ Span(b[2].sw.lon, b[2].ne.lon) = Span(b[1].sw.lon, b[1].ne.lon)
                         /\ b[2].sw.lat = b[1].sw.lat /\ b[2].ne.lat = b[1].ne.lat
                  /\ call.direction = "w" =>
                         /\ b[2].ne.lon = b[1].sw.lon
                         /\ Span(b[2].sw.lon, b[2].ne.lon) = Span(b[1].sw.lon, b[1].ne.lon)
                         /\ b[2].sw.lat = b[1].sw.lat /\ b[2].ne.lat = b[1].ne.lat)

\* C10 happens: a step south whose borrow runs through every latitude bit, so
\* that the decremented integer has fewer binary digits than the bit string
C10_Witness ==
    /\ call.op = "adjacent" /\ Valid(call.geohash) /\ call.direction = "s"
    /\ StaysInside(call.geohash, "s")
    /\ Len(call.geohash) >= 2
    /\ ret.str[1] # call.geohash[1]
    /\ Len(toString2(parseInt2(Deinterleave(hexToBinary(call.geohash), 1)), -1))
           < 2 * Len(call.geohash)

=============================================================================
